---- MODULE Spec2Model ----
(***************************************************************************)
(* Model of drew-work/dw_weather_scrape.py: the three Airflow tasks        *)
(* scrape_weather_data -> transform_weather_data ->                        *)
(* write_weather_data_to_bigquery of the DAG weather_data_pipeline.        *)
(*                                                                         *)
(* Text is a sequence of chunks.  A chunk is one decimal digit, ".", "-",  *)
(* " " or an opaque piece of non-digit text such as "Calm", "in" or "degF"  *)
(* (the degree sign and F);                                                *)
(* regular expressions and str methods are computed over chunks as         *)
(* Python's re / str compute them over characters.                         *)
(* A missing value (Python None, JSON null) of a raw field is NULL; a      *)
(* typed cell is an option: None (NaN / None) or Some(v).                  *)
(***************************************************************************)
EXTENDS Integers, Sequences, FiniteSets, TLC

\* ------------------------------------------------------------------ bounds
MaxLen == 3        \* longest generated field text, in chunks
MaxBatch == 2      \* largest generated batch handed to the Normalizer
NumTargets == 2    \* how many of the configured CITIES a run loops over
MaxRuns == 2       \* scheduled DAG runs explored

\* ----------------------------------------------------------- basic values
NULL == <<"<null>">>
None == <<>>
Some(v) == <<v>>

Digits == {"0", "1", "2", "3", "4", "5", "6", "7", "8", "9"}

DigitValue(c) ==
  CASE c = "0" -> 0 [] c = "1" -> 1 [] c = "2" -> 2 [] c = "3" -> 3
    [] c = "4" -> 4 [] c = "5" -> 5 [] c = "6" -> 6 [] c = "7" -> 7
    [] c = "8" -> 8 [] c = "9" -> 9

RECURSIVE Pow10(_)
Pow10(k) == IF k = 0 THEN 1 ELSE 10 * Pow10(k - 1)

\* int() of a string of digits
RECURSIVE int(_)
int(s) == IF s = <<>> THEN 0 ELSE 10 * int(SubSeq(s, 1, Len(s) - 1)) + DigitValue(s[Len(s)])

\* numpy/pandas round(): nearest integer of num/den (den > 0), ties to even
Round(num, den) ==
  LET q == num \div den
      r == num % den
  IN  IF 2 * r < den THEN q
      ELSE IF 2 * r > den THEN q + 1
      ELSE IF q % 2 = 0 THEN q ELSE q + 1

\* ------------------------------------------------------------ regex pieces
\* least position >= p holding a digit, 0 when there is none
RECURSIVE FirstDigitFrom(_, _)
FirstDigitFrom(s, p) ==
  IF p > Len(s) THEN 0
  ELSE IF s[p] \in Digits THEN p
  ELSE FirstDigitFrom(s, p + 1)

\* last position of the maximal digit run that starts at p (greedy \d+)
RECURSIVE RunEnd(_, _)
RunEnd(s, p) == IF p < Len(s) /\ s[p + 1] \in Digits THEN RunEnd(s, p + 1) ELSE p

\* Series.str.extract("(\d+)"): the first run of digits, NaN when none or null
str_extract_int(s) ==
  IF s = NULL THEN None
  ELSE LET p == FirstDigitFrom(s, 1)
       IN  IF p = 0 THEN None ELSE Some(SubSeq(s, p, RunEnd(s, p)))

\* Series.str.extract("(\d+).*?(\d+)"): leftmost match with backtracking.
\* Group 1 is the first digit run; group 2 the next run.  When no digit
\* follows the first run, the greedy group 1 gives up its last digit to
\* group 2.
str_extract_pair(s) ==
  IF s = NULL THEN <<None, None>>
  ELSE LET p == FirstDigitFrom(s, 1)
       IN  IF p = 0 THEN <<None, None>>
           ELSE LET q == RunEnd(s, p)
                    r == FirstDigitFrom(s, q + 1)
                IN  IF r # 0
                      THEN <<Some(SubSeq(s, p, q)), Some(SubSeq(s, r, RunEnd(s, r)))>>
                    ELSE IF q > p
                      THEN <<Some(SubSeq(s, p, q - 1)), Some(SubSeq(s, q, q))>>
                    ELSE <<None, None>>

\* Series.str.extract("(\d+\.\d+|\d+)"): first decimal, else first integer
str_extract_decimal(s) ==
  IF s = NULL THEN None
  ELSE LET p == FirstDigitFrom(s, 1)
       IN  IF p = 0 THEN None
           ELSE LET q == RunEnd(s, p)
                IN  IF q + 2 <= Len(s) /\ s[q + 1] = "." /\ s[q + 2] \in Digits
                      THEN Some(SubSeq(s, p, RunEnd(s, q + 2)))
                    ELSE Some(SubSeq(s, p, q))

\* ------------------------------------------------------------------ floats
\* What Python's float() accepts among chunk strings: an optional sign,
\* digits with at most one ".", at least one digit.
Unsigned(s) == IF s # <<>> /\ s[1] \in {"-", "+"} THEN Tail(s) ELSE s

IsFloatLit(s) ==
  LET u == Unsigned(s)
  IN  /\ s # NULL
      /\ \A i \in 1..Len(u) : u[i] \in Digits \cup {"."}
      /\ Cardinality({i \in 1..Len(u) : u[i] = "."}) <= 1
      /\ \E i \in 1..Len(u) : u[i] \in Digits

\* float(s) of a float literal as a decimal fraction: sign * n / 10^k
float(s) ==
  LET u   == Unsigned(s)
      dot == IF \E i \in 1..Len(u) : u[i] = "."
               THEN CHOOSE i \in 1..Len(u) : u[i] = "." ELSE Len(u) + 1
      ds  == SubSeq(u, 1, dot - 1) \o SubSeq(u, dot + 1, Len(u))
  IN  [neg |-> s # <<>> /\ s[1] = "-", n |-> int(ds), k |-> Len(u) - dot + (IF dot > Len(u) THEN 1 ELSE 0)]

\* x.round(2), in hundredths
Round2(f) == (IF f.neg THEN -1 ELSE 1) * Round(f.n * 100, Pow10(f.k))

\* ------------------------------------------------------------- raw records
RawFields == {"location", "lat", "lon", "elev_ft", "temperature", "humidity",
              "wind_speed", "barometer", "dewpoint", "vis_miles", "wind_chill",
              "last_update"}

Column(data, f) == [i \in 1..Len(data) |-> data[i][f]]

\* pd.read_json(data, orient="records") infers a dtype per column: a column
\* whose every value is null or converts with float() becomes a numeric
\* column (an all-null column becomes float64 NaN); any other column keeps
\* its strings, with None for null.
NumericColumn(col) == \A i \in 1..Len(col) : col[i] = NULL \/ IsFloatLit(col[i])

\* Series.str on a numeric column raises AttributeError
StrAccessorRaises(data, f) == NumericColumn(Column(data, f))

\* ---------------------------------------------------------------- location
Sep == ", "

\* str.split(", "): cut at every separator
RECURSIVE str_split(_)
str_split(s) ==
  IF \E i \in 1..Len(s) : s[i] = Sep
    THEN LET p == CHOOSE i \in 1..Len(s) : s[i] = Sep /\ \A j \in 1..(i - 1) : s[j] # Sep
         IN  <<SubSeq(s, 1, p - 1)>> \o str_split(SubSeq(s, p + 1, Len(s)))
    ELSE <<s>>

\* str.split(", ", expand=True): a null location gives one null cell
Parts(s) == IF s = NULL THEN <<NULL>> ELSE str_split(s)

\* number of columns of the expanded frame: the longest split of the column
SplitWidth(data) ==
  CHOOSE w \in 1..(MaxLen + 2) :
    /\ \A i \in 1..Len(data) : Len(Parts(data[i].location)) <= w
    /\ \E i \in 1..Len(data) : Len(Parts(data[i].location)) = w

\* df[["city", "state"]] = ... raises ValueError unless the frame has 2 columns
LocationRaises(data) == StrAccessorRaises(data, "location") \/ SplitWidth(data) # 2

\* astype(str) of a cell of the expanded frame: a missing cell prints "None"
astype_str(parts, j) ==
  IF j > Len(parts) \/ parts[j] = NULL THEN <<"None">> ELSE parts[j]

city(x) == astype_str(Parts(x.location), 1)
state(x) == astype_str(Parts(x.location), 2)

\* ----------------------------------------------------------- lat, lon, elev
\* astype(float): null stays NaN, a non-numeric string raises ValueError
LatLonRaises(data) ==
  \E i \in 1..Len(data) : \E f \in {"lat", "lon"} :
    data[i][f] # NULL /\ ~IsFloatLit(data[i][f])

as_float(v) == IF v = NULL THEN None ELSE Some(float(v))

IsIntLit(s) == s # NULL /\ s # <<>> /\ \A i \in 1..Len(s) : s[i] \in Digits

NA == <<"NA">>

\* int(row["elev_ft"]) if row["elev_ft"] != "NA" else None
ElevRaises(data) ==
  \E i \in 1..Len(data) :
    LET v == data[i].elev_ft
    IN  v # NA /\ (v = NULL \/ IF NumericColumn(Column(data, "elev_ft"))
                                 THEN FALSE ELSE ~IsIntLit(v))

elev_ft(v) ==
  IF v = NA THEN None
  ELSE LET f == float(v) IN Some((IF f.neg THEN -1 ELSE 1) * (f.n \div Pow10(f.k)))

\* -------------------------------------------------------------- temperature
\* .str.extract("(\d+)").astype(int): NaN cannot be cast to int
TempRaises(data) ==
  \/ StrAccessorRaises(data, "temperature")
  \/ \E i \in 1..Len(data) : str_extract_int(data[i].temperature) = None

temp_f(v) == int(str_extract_int(v)[1])

\* astype(int) without round(): truncation toward zero
temp_c_truncated(f) ==
  IF f >= 32 THEN ((f - 32) * 5) \div 9 ELSE -(((32 - f) * 5) \div 9)

\* ((temp_f - 32) * 5 / 9).round().astype(int)
temp_c(f) == Round((f - 32) * 5, 9)

\* ----------------------------------------------------------------- humidity
\* .str.extract("(\d+)", expand=False).astype(float) / 100, in hundredths
humidity(v) ==
  LET e == str_extract_int(v) IN IF e = None THEN None ELSE Some(int(e[1]))

\* --------------------------------------------------------------- wind speed
fillna(opt, d) == IF opt = None THEN Some(d) ELSE opt

\* without fillna(0), NaN staying null in a nullable integer column
wind_speed_unfilled(v) ==
  LET e == str_extract_int(v) IN IF e = None THEN None ELSE Some(int(e[1]))

\* .str.extract("(\d+)", expand=False).fillna(0).astype(int), then
\* .replace("Calm", 0), which finds no "Calm" in the integer column
wind_speed(v) ==
  LET e == fillna(str_extract_int(v), <<"0">>) IN Some(int(e[1]))

\* ---------------------------------------------------------------- barometer
Contains(s, c) == \E i \in 1..Len(s) : s[i] = c

\* x.split()[0]: the first whitespace-delimited token
RECURSIVE lstrip(_)
lstrip(s) == IF s # <<>> /\ s[1] = " " THEN lstrip(Tail(s)) ELSE s

FirstToken(s) ==
  LET t == lstrip(s)
      e == IF Contains(t, " ")
             THEN (CHOOSE i \in 1..Len(t) : t[i] = " " /\ \A j \in 1..(i - 1) : t[j] # " ") - 1
             ELSE Len(t)
  IN  SubSeq(t, 1, e)

\* the lambda's condition: "in" in x and x != "NA"
HasInches(x) == Contains(x, "in") /\ x # NA

\* "in" in x raises TypeError when x is None or a number; float() raises
\* ValueError when the first token is not a number
BarometerRaises(data) ==
  \/ NumericColumn(Column(data, "barometer"))
  \/ \E i \in 1..Len(data) :
       LET x == data[i].barometer
       IN  x = NULL \/ (HasInches(x) /\ ~IsFloatLit(FirstToken(x)))

\* float(x.split()[0]) * 33.8639, then round(2); in hundredths of a millibar,
\* 33.8639 written as 338639 / 10^4
MillibarsPerInch == 338639

barometer(x) ==
  IF HasInches(x)
    THEN LET f == float(FirstToken(x))
         IN  Some(Round(f.n * MillibarsPerInch, Pow10(f.k + 2)))
    ELSE None

\* ----------------------------------------------------------------- dewpoint
\* .str.extract("(\d+).*?(\d+)", expand=True).astype(int)
DewpointRaises(data) ==
  \/ StrAccessorRaises(data, "dewpoint")
  \/ \E i \in 1..Len(data) : str_extract_pair(data[i].dewpoint)[1] = None

dewpoint(v, j) == Some(int(str_extract_pair(v)[j][1]))

\* --------------------------------------------------------------- visibility
\* .str.extract("(\d+\.\d+|\d+)", expand=False).astype(float).round(2)
vis_miles(v) ==
  LET e == str_extract_decimal(v) IN IF e = None THEN None ELSE Some(Round2(float(e[1])))

\* --------------------------------------------------------------- wind chill
\* DataFrame.replace(0, None): every cell equal to 0 becomes None (pandas
\* 1.4 and later, where an explicit value=None is the replacement)
replace_zero(opt) == IF opt = Some(0) THEN None ELSE opt

\* .str.extract("(\d+).*?(\d+)", expand=True).astype(float).fillna(0)
\*   .replace(0, None), cell by cell
wind_chill(v, j) ==
  LET e == str_extract_pair(v)[j]
      n == IF e = None THEN None ELSE Some(int(e[1]))
  IN  replace_zero(fillna(n, 0))

\* -------------------------------------------------------------- last update
\* Texts dateutil.parser.parse accepts: a date-and-time phrase, optionally
\* followed by a zone abbreviation.
TimeChunks == {"27 Feb 6:00 am", "27 Feb 11:30 pm"}
ZoneChunks == {" CST", " PST", " UTC"}

LocalMinute(c) == IF c = "27 Feb 6:00 am" THEN 360 ELSE 1410

\* parse() raises TypeError on None / NaN and ParserError on other text
ParserRaises(x) ==
  \/ x = NULL
  \/ ~(/\ Len(x) \in {1, 2}
       /\ x[1] \in TimeChunks
       /\ Len(x) = 2 => x[2] \in ZoneChunks)

LastUpdateRaises(data) == \E i \in 1..Len(data) : ParserRaises(data[i].last_update)

\* tzinfos={"CST": tzoffset(None, -21600)}: minutes to add to reach UTC
CstOffsetSeconds == 21600

\* parse(x, tzinfos=...).astimezone(tzutc()), then strftime.  "CST" carries
\* the table's offset and "UTC" is built in; any other abbreviation, or none,
\* gives a naive datetime, which astimezone reads in the host's zone.
last_update(x) ==
  LET m == LocalMinute(x[1])
      z == IF Len(x) = 2 THEN x[2] ELSE ""
      u == IF z = " CST" THEN m + CstOffsetSeconds \div 60 ELSE m
  IN  [zone   |-> IF z \in {" CST", " UTC"} THEN "utc" ELSE "host",
       day    |-> u \div 1440,
       minute |-> u % 1440]

\* ----------------------------------------------------- transform_weather_data
\* Any step that raises ends the task: no frame is returned.
TransformRaises(data) ==
  \/ Len(data) = 0
  \/ LocationRaises(data)
  \/ LatLonRaises(data)
  \/ ElevRaises(data)
  \/ TempRaises(data)
  \/ StrAccessorRaises(data, "humidity")
  \/ StrAccessorRaises(data, "wind_speed")
  \/ BarometerRaises(data)
  \/ DewpointRaises(data)
  \/ StrAccessorRaises(data, "vis_miles")
  \/ StrAccessorRaises(data, "wind_chill")
  \/ LastUpdateRaises(data)

TypedRecord(x) ==
  [location     |-> x.location,
   city         |-> city(x),
   state        |-> state(x),
   lat          |-> as_float(x.lat),
   lon          |-> as_float(x.lon),
   elev_ft      |-> elev_ft(x.elev_ft),
   temp_f       |-> Some(temp_f(x.temperature)),
   temp_c       |-> Some(temp_c(temp_f(x.temperature))),
   humidity     |-> humidity(x.humidity),
   wind_speed   |-> wind_speed(x.wind_speed),
   barometer    |-> barometer(x.barometer),
   dewpoint_f   |-> dewpoint(x.dewpoint, 1),
   dewpoint_c   |-> dewpoint(x.dewpoint, 2),
   vis_miles    |-> vis_miles(x.vis_miles),
   wind_chill_f |-> wind_chill(x.wind_chill, 1),
   wind_chill_c |-> wind_chill(x.wind_chill, 2),
   last_update  |-> last_update(x.last_update)]

Raised == [status |-> "raised", records |-> <<>>]

transform_weather_data(data) ==
  IF TransformRaises(data) THEN Raised
  ELSE [status |-> "ok", records |-> [i \in 1..Len(data) |-> TypedRecord(data[i])]]

\* ------------------------------------------------------ scrape_weather_data
CityNames ==
  << <<"Portland", Sep, "OR">>, <<"San Diego", Sep, "CA">>, <<"Duluth", Sep, "MN">>,
     <<"Minneapolis", Sep, "MN">>, <<"Salt Lake City", Sep, "UT">>, <<"Denver", Sep, "CO">>,
     <<"San Francisco", Sep, "CA">>, <<"New York City", Sep, "NY">>, <<"Portland", Sep, "ME">>,
     <<"Seattle", Sep, "WA">>, <<"Baltimore", Sep, "MD">> >>

\* the configured targets, cut to the first NumTargets
CITIES == [i \in 1..NumTargets |-> [Name |-> CityNames[i], NWS_URL |-> i]]

\* end of the match of [-+]?\d*\.\d+|\d+ at position p, 0 when none starts there
MatchEnd(s, p) ==
  LET a == IF s[p] \in {"-", "+"} THEN p + 1 ELSE p
      d == IF a <= Len(s) /\ s[a] \in Digits THEN RunEnd(s, a) + 1 ELSE a
  IN  IF d + 1 <= Len(s) /\ s[d] = "." /\ s[d + 1] \in Digits THEN RunEnd(s, d + 1)
      ELSE IF s[p] \in Digits THEN RunEnd(s, p)
      ELSE 0

\* re.findall(r"[-+]?\d*\.\d+|\d+", s): the non-overlapping matches, left to right
RECURSIVE findall(_, _)
findall(s, p) ==
  IF p > Len(s) THEN <<>>
  ELSE LET e == MatchEnd(s, p)
       IN  IF e = 0 THEN findall(s, p + 1)
           ELSE <<SubSeq(s, p, e)>> \o findall(s, e + 1)

\* soup.find("span", {"class": "smallTxt"}).text raises AttributeError when
\* the span is missing; unpacking into lat, lon, elev raises ValueError
\* unless findall returns exactly three tokens.
ExtractRaises(page) ==
  page.smallTxt = NULL \/ Len(findall(page.smallTxt, 1)) # 3

\* the dict appended to data for one city
RawRecord(c, page) ==
  LET t == findall(page.smallTxt, 1)
  IN  [location    |-> c.Name,
       lat         |-> t[1],
       lon         |-> t[2],
       elev_ft     |-> t[3],
       temperature |-> page.temperature,
       humidity    |-> page.humidity,
       wind_speed  |-> page.wind_speed,
       barometer   |-> page.barometer,
       dewpoint    |-> page.dewpoint,
       vis_miles   |-> page.vis_miles,
       wind_chill  |-> page.wind_chill,
       last_update |-> page.last_update]

\* ------------------------------------------------------------- sample pages
GoodPage ==
  [smallTxt    |-> <<"Lat: ", "4", "5", ".", "5", " Lon: ", "-", "1", "2", "2", ".", "6",
                     " Elev: ", "2", "0", " ft">>,
   temperature |-> <<"4", "1", "degF">>,
   humidity    |-> <<"8", "1", "%">>,
   wind_speed  |-> <<"W ", "5", " mph">>,
   barometer   |-> <<"3", "0", ".", "1", "2", " ", "in">>,
   dewpoint    |-> <<"3", "6", "degF (", "2", "degC)">>,
   vis_miles   |-> <<"1", "0", ".", "0", "0", " mi">>,
   wind_chill  |-> <<"3", "7", "degF (", "3", "degC)">>,
   last_update |-> <<"27 Feb 6:00 am", " CST">>]

\* pages a fetch can return: the usual page, a page without the smallTxt span
\* (an error page), one whose elevation is not a number, one with a fourth
\* number in the span, one without the temperature readout, one without the
\* Wind Chill row
Pages ==
  { GoodPage,
    [GoodPage EXCEPT !.smallTxt = NULL],
    [GoodPage EXCEPT !.smallTxt = <<"Lat: ", "4", "5", ".", "5", " Lon: ", "-", "1", "2", "2",
                                    ".", "6", " Elev: ", "NA">>],
    [GoodPage EXCEPT !.smallTxt = <<"Lat: ", "4", "5", ".", "5", " Lon: ", "-", "1", "2", "2",
                                    ".", "6", " Elev: ", "2", "0", " ft (", "6", " m)">>],
    [GoodPage EXCEPT !.temperature = NULL],
    [GoodPage EXCEPT !.wind_chill = NULL] }

\* ------------------------------------------ write_weather_data_to_bigquery
SCHEMA == "SCHEMA"

\* WRITE_TRUNCATE in place of WRITE_APPEND: the job replaces the rows
load_truncating(old, df) == df

\* LoadJobConfig(write_disposition=WRITE_APPEND): the job adds the frame's rows
load_table_from_dataframe(old, df) == old \o df

\* ------------------------------------------------------------------- state
VARIABLES
  run,          \* DAG runs started so far
  taskState,    \* state of each task instance of the current run
  idx,          \* position of scrape_weather_data's loop over CITIES
  responses,    \* what requests.get gave for each city visited in this run
  data,         \* scrape_weather_data's local list
  scraped,      \* return value of scrape_weather_data
  transformed,  \* outcome of transform_weather_data
  dataset,      \* whether the dataset exists
  table,        \* definition of the table, "absent" when it does not exist
  creates,      \* create_dataset / create_table calls made so far
  rows          \* rows of the table

vars == <<run, taskState, idx, responses, data, scraped, transformed, dataset, table, creates, rows>>

Tasks == {"scrape", "transform", "load"}
NotStarted == [t \in Tasks |-> "none"]
NoResult == [status |-> "none", records |-> <<>>]

Finished ==
  \/ run = 0
  \/ taskState.load \in {"success", "failed", "upstream_failed"}

\* the warehouse before the first run: nothing, a dataset only, the table as
\* this DAG defines it, or a table somebody defined otherwise
Init ==
  /\ run = 0
  /\ taskState = NotStarted
  /\ idx = 1
  /\ responses = <<>>
  /\ data = <<>>
  /\ scraped = <<>>
  /\ transformed = NoResult
  /\ \E w \in {<<FALSE, "absent">>, <<TRUE, "absent">>, <<TRUE, SCHEMA>>, <<TRUE, "other">>} :
       dataset = w[1] /\ table = w[2]
  /\ creates = [dataset |-> 0, table |-> 0]
  /\ rows = <<>>

\* the scheduler starts the next run: fresh task instances
StartRun ==
  /\ Finished
  /\ run < MaxRuns
  /\ run' = run + 1
  /\ taskState' = [NotStarted EXCEPT !.scrape = "running"]
  /\ idx' = 1
  /\ responses' = <<>>
  /\ data' = <<>>
  /\ scraped' = <<>>
  /\ transformed' = NoResult
  /\ UNCHANGED <<dataset, table, creates, rows>>

\* one iteration of "for city in CITIES" whose requests.get raises: continue
ScrapeFetchFails ==
  /\ taskState.scrape = "running"
  /\ idx <= NumTargets
  /\ idx' = idx + 1
  /\ responses' = Append(responses, [ok |-> FALSE, page |-> GoodPage])
  /\ UNCHANGED <<run, taskState, data, scraped, transformed, dataset, table, creates, rows>>

\* one iteration whose requests.get returns a page
ScrapeCity ==
  /\ taskState.scrape = "running"
  /\ idx <= NumTargets
  /\ \E page \in Pages :
       /\ responses' = Append(responses, [ok |-> TRUE, page |-> page])
       /\ IF ExtractRaises(page)
            THEN /\ taskState' = [taskState EXCEPT !.scrape = "failed"]
                 /\ UNCHANGED <<idx, data>>
            ELSE /\ data' = Append(data, RawRecord(CITIES[idx], page))
                 /\ idx' = idx + 1
                 /\ UNCHANGED taskState
  /\ UNCHANGED <<run, scraped, transformed, dataset, table, creates, rows>>

\* after the loop: the frame of data goes out as JSON
ScrapeReturn ==
  /\ taskState.scrape = "running"
  /\ idx > NumTargets
  /\ scraped' = data
  /\ taskState' = [taskState EXCEPT !.scrape = "success"]
  /\ UNCHANGED <<run, idx, responses, data, transformed, dataset, table, creates, rows>>

\* trigger rule all_done in place of all_success: b runs once a has ended
UpstreamDone(t) ==
  IF t = "transform" THEN taskState.scrape \in {"success", "failed"}
  ELSE taskState.transform \in {"success", "failed", "upstream_failed"}

\* a >> b: b runs once a has succeeded (trigger rule all_success)
UpstreamSucceeded(t) ==
  IF t = "transform" THEN taskState.scrape = "success"
  ELSE taskState.scrape = "success" /\ taskState.transform = "success"

UpstreamFailed(t) ==
  IF t = "transform" THEN taskState.scrape = "failed"
  ELSE taskState.transform \in {"failed", "upstream_failed"}

Transform ==
  /\ taskState.transform = "none"
  /\ UpstreamSucceeded("transform")
  /\ transformed' = transform_weather_data(scraped)
  /\ taskState' = [taskState EXCEPT !.transform =
                     IF transformed'.status = "ok" THEN "success" ELSE "failed"]
  /\ UNCHANGED <<run, idx, responses, data, scraped, dataset, table, creates, rows>>

\* a task below a failed task is not run
SkipDownstream ==
  /\ \E t \in {"transform", "load"} :
       /\ taskState[t] = "none"
       /\ UpstreamFailed(t)
       /\ taskState' = [taskState EXCEPT ![t] = "upstream_failed"]
  /\ UNCHANGED <<run, idx, responses, data, scraped, transformed, dataset, table, creates, rows>>

\* write_weather_data_to_bigquery.  backend names the first client call that
\* raises something other than NotFound, "ok" when none does.
Load ==
  /\ taskState.load = "none"
  /\ UpstreamSucceeded("load")
  /\ \E backend \in {"ok", "dataset_error", "table_error", "load_error"} :
       LET mkDataset == backend # "dataset_error" /\ ~dataset
           mkTable   == backend \in {"ok", "load_error"} /\ table = "absent"
       IN  /\ dataset' = (dataset \/ mkDataset)
           /\ table' = IF mkTable THEN SCHEMA ELSE table
           /\ creates' = [dataset |-> creates.dataset + (IF mkDataset THEN 1 ELSE 0),
                          table   |-> creates.table + (IF mkTable THEN 1 ELSE 0)]
           /\ rows' = IF backend = "ok"
                        THEN load_table_from_dataframe(rows, transformed.records)
                        ELSE rows
           /\ taskState' = [taskState EXCEPT !.load =
                              IF backend = "ok" THEN "success" ELSE "failed"]
  /\ UNCHANGED <<run, idx, responses, data, scraped, transformed>>

Next ==
  \/ StartRun
  \/ ScrapeFetchFails
  \/ ScrapeCity
  \/ ScrapeReturn
  \/ Transform
  \/ SkipDownstream
  \/ Load

Spec == Init /\ [][Next]_vars

\* --------------------------------------------- the Normalizer on its own
\* Batches handed to transform_weather_data: records of the usual page in
\* which one field, the same in every record, varies.  In the first two
\* records it takes any text of up to MaxLen chunks over that field's
\* alphabet, a sample text, or null.
Texts(A) == UNION {[1..n -> A] : n \in 0..MaxLen}

Alphabet(f) ==
  CASE f = "location"    -> {"Denver", Sep, "CO"}
    [] f = "elev_ft"     -> {"2", "0", "NA"}
    [] f = "temperature" -> {"7", "2", "degF"}
    [] f = "humidity"    -> {"8", "1", "%"}
    [] f = "wind_speed"  -> {"5", "Calm", " mph"}
    [] f = "barometer"   -> {"3", " ", "in"}
    [] f = "dewpoint"    -> {"3", "6", "degF ("}
    [] f = "vis_miles"   -> {"1", ".", " mi"}
    [] f = "wind_chill"  -> {"3", "0", "degF ("}
    [] OTHER             -> {}

Samples(f) ==
  CASE f = "barometer"   -> {NA, GoodPage.barometer, <<"3", ".", "1">>}
    [] f = "temperature" -> {<<"7", " / ", "4", "1", "degF">>}
    [] f = "last_update" -> {NA} \cup {<<t>> : t \in TimeChunks}
                              \cup {<<t, z>> : t \in TimeChunks, z \in ZoneChunks}
    [] OTHER             -> {}

UsualRecord(i) ==
  [RawRecord(CITIES[1], GoodPage)
     EXCEPT !.location = CityNames[((i - 1) % Len(CityNames)) + 1]]

FieldTexts(f) == {NULL} \cup Texts(Alphabet(f)) \cup Samples(f) \cup {UsualRecord(1)[f]}

VariedFields == RawFields \ {"lat", "lon"}

\* texts of the records after the second: null, the usual text, the samples
Companions(f) == {NULL, UsualRecord(1)[f]} \cup Samples(f)

RecordTexts(f, i) == IF i <= 2 THEN FieldTexts(f) ELSE Companions(f)

InitNorm ==
  /\ run = 1
  /\ taskState = [NotStarted EXCEPT !.scrape = "success"]
  /\ idx = NumTargets + 1
  /\ responses = <<>>
  /\ \E n \in 1..MaxBatch, f \in VariedFields :
       \E first \in RecordTexts(f, 1) :
         \E rest \in [3..n -> Companions(f)] :
           \E second \in (IF n >= 2 THEN RecordTexts(f, 2) ELSE {first}) :
             scraped = [i \in 1..n |->
                          [UsualRecord(i) EXCEPT ![f] =
                             IF i = 1 THEN first ELSE IF i = 2 THEN second ELSE rest[i]]]
  /\ data = scraped
  /\ transformed = NoResult
  /\ dataset = TRUE
  /\ table = SCHEMA
  /\ creates = [dataset |-> 0, table |-> 0]
  /\ rows = <<>>

NextNorm == Transform

SpecNorm == InitNorm /\ [][NextNorm]_vars

\* ============================================================== properties
\* ------------------------------------------------------------------ Spec

\* positions of the cities of this run whose requests.get returned a response
RECURSIVE FetchedFrom(_)
FetchedFrom(i) ==
  IF i > Len(responses) THEN <<>>
  ELSE (IF responses[i].ok THEN <<i>> ELSE <<>>) \o FetchedFrom(i + 1)

\* C1: whichever fetches fail, scrape_weather_data completes and returns
\* exactly one record for each target whose fetch succeeded, in target order,
\* and none for a failed target.
C1_OneRecordPerFetchedTarget ==
  /\ taskState.scrape # "failed"
  /\ taskState.scrape = "success" =>
       LET ok == FetchedFrom(1)
       IN  /\ Len(scraped) = Len(ok)
           /\ \A k \in 1..Len(ok) : scraped[k].location = CITIES[ok[k]].Name

\* a fetched page whose lat/lon/elevation block is missing or does not hold
\* exactly three numeric tokens
BadBlock(page) == page.smallTxt = NULL \/ Len(findall(page.smallTxt, 1)) # 3

\* C3: a fetched page with a missing or malformed lat/lon/elevation block
\* still yields a record for its target, with location set and lat, lon and
\* elevation null, and the scrape goes on to the remaining targets.
C3_BadBlockDegradesToNull ==
  \A i \in 1..Len(responses) :
    (responses[i].ok /\ BadBlock(responses[i].page)) =>
      /\ taskState.scrape # "failed"
      /\ \E k \in 1..Len(data) :
           /\ data[k].location = CITIES[i].Name
           /\ data[k].lat = NULL /\ data[k].lon = NULL /\ data[k].elev_ft = NULL

LoadSucceeds == taskState.load = "none" /\ taskState'.load = "success"

\* C4: the dataset and the table are created only when absent, an existing
\* table keeps its definition, and every successful load adds the rows of its
\* batch after the rows already there; nothing else changes the rows.
C4_CreateOnceAppendOnly ==
  [][ /\ dataset => (dataset' /\ creates'.dataset = creates.dataset)
      /\ table # "absent" => (table' = table /\ creates'.table = creates.table)
      /\ creates'.dataset \in {creates.dataset, creates.dataset + 1}
      /\ creates'.table \in {creates.table, creates.table + 1}
      /\ creates'.table = creates.table + 1 => (table = "absent" /\ table' = SCHEMA)
      /\ LoadSucceeds => /\ rows' = rows \o transformed.records
                         /\ Len(rows') = Len(rows) + Len(scraped)
                         /\ table' # "absent"
      /\ ~LoadSucceeds => rows' = rows ]_vars

\* a second run has loaded its batch into the table the first run created
C4_Witness ==
  /\ run = 2
  /\ taskState.load = "success"
  /\ creates.table = 1
  /\ Len(rows) = 2 * Len(transformed.records)
  /\ Len(rows) > 0

Terminal == {"success", "failed", "upstream_failed"}
Warehouse == <<dataset, table, creates, rows>>

\* C10: within a run the tasks go scrape, transform, load, each at most once;
\* the warehouse is touched only after both scrape and transform succeeded,
\* and then the rows added are the whole transformed batch.
C10_StagesInOrder ==
  [][ /\ run' = run =>
           \A t \in Tasks : taskState[t] \in Terminal => taskState'[t] = taskState[t]
      /\ taskState'.scrape # taskState.scrape =>
           (taskState'.transform = "none" /\ taskState'.load = "none")
      /\ (run' = run /\ transformed' # transformed) =>
           (taskState.scrape = "success" /\ taskState.load = "none")
      /\ taskState'.transform = "success" => taskState'.scrape = "success"
      /\ taskState'.load \in {"success", "failed"} => taskState'.transform = "success"
      /\ Warehouse' # Warehouse =>
           /\ taskState.scrape = "success"
           /\ taskState.transform = "success"
           /\ transformed = transform_weather_data(scraped)
           /\ transformed.status = "ok"
           /\ rows' \in {rows, rows \o transformed.records} ]_vars

\* a run whose Normalizer raised has ended with nothing created or loaded
C10_Witness ==
  /\ taskState.scrape = "success"
  /\ taskState.transform = "failed"
  /\ taskState.load = "upstream_failed"
  /\ ~dataset /\ table = "absent" /\ rows = <<>>
  /\ creates = [dataset |-> 0, table |-> 0]

\* -------------------------------------------------------------- SpecNorm
Ran == taskState.transform # "none"
Emitted == transformed.status = "ok"

\* the record i of the batch is the usual record but for field f
UsualBut(i, F) ==
  \A g \in RawFields \ F : scraped[i][g] = UsualRecord(i)[g]

\* starts of the maximal runs of digits of a text
RunStarts(s) == {p \in 1..Len(s) : s[p] \in Digits /\ (p = 1 \/ s[p - 1] \notin Digits)}

\* the number written by the digits s[p..q], read left to right
RECURSIVE NumberAt(_, _, _)
NumberAt(s, p, q) == IF p > q THEN 0 ELSE DigitValue(s[p]) * Pow10(q - p) + NumberAt(s, p + 1, q)

\* n is the first integer written in s
IsFirstInteger(s, n) ==
  \E p \in RunStarts(s) :
    /\ \A r \in RunStarts(s) : p <= r
    /\ \E q \in p..Len(s) :
         /\ \A j \in p..q : s[j] \in Digits
         /\ (q = Len(s) \/ s[q + 1] \notin Digits)
         /\ n = NumberAt(s, p, q)

HasInteger(s) == s # NULL /\ RunStarts(s) # {}

MandatoryParse(x) ==
  /\ HasInteger(x.temperature)
  /\ x.last_update # NULL
  /\ \/ x.last_update \in {<<t>> : t \in TimeChunks}
     \/ x.last_update \in {<<t, z>> : t \in TimeChunks, z \in ZoneChunks}

\* C2: a record whose temperature holds no integer, or whose last_update does
\* not parse, is left out of the output while every other record is emitted;
\* the Normalizer does not raise.
C2_UnparsableRecordDropped ==
  (Ran /\ \A i \in 1..Len(scraped) : UsualBut(i, {"temperature", "last_update"})) =>
    /\ Emitted
    /\ Len(transformed.records) = Cardinality({i \in 1..Len(scraped) : MandatoryParse(scraped[i])})
    /\ \A i \in 1..Len(scraped) :
         MandatoryParse(scraped[i]) =>
           \E k \in 1..Len(transformed.records) :
             transformed.records[k].location = scraped[i].location

\* C5: in every emitted record wind_chill_f and wind_chill_c are both null or
\* both non-null, neither is zero, and both are null when the text is absent
\* or holds fewer than two integers.
C5_WindChillPaired ==
  Emitted =>
    \A i \in 1..Len(scraped) :
      LET r == transformed.records[i]
          w == scraped[i].wind_chill
      IN  /\ (r.wind_chill_f = None) <=> (r.wind_chill_c = None)
          /\ r.wind_chill_f # Some(0) /\ r.wind_chill_c # Some(0)
          /\ (w = NULL \/ Cardinality(RunStarts(w)) < 2) =>
               (r.wind_chill_f = None /\ r.wind_chill_c = None)

HasSep(s) == \E i \in 1..Len(s) : s[i] = Sep
FirstSep(s) == CHOOSE i \in 1..Len(s) : s[i] = Sep /\ \A j \in 1..(i - 1) : s[j] # Sep

\* C6: for every location string the split does not raise; city is the text
\* before the first ", " and state the text after it, and without a ", "
\* city is the whole string and state is empty.
C6_LocationSplit ==
  (Ran /\ \A i \in 1..Len(scraped) : UsualBut(i, {"location"}) /\ scraped[i].location # NULL) =>
    /\ Emitted
    /\ \A i \in 1..Len(scraped) :
         LET l == scraped[i].location
             r == transformed.records[i]
         IN  IF HasSep(l)
               THEN /\ r.city = SubSeq(l, 1, FirstSep(l) - 1)
                    /\ r.state = SubSeq(l, FirstSep(l) + 1, Len(l))
               ELSE r.city = l /\ r.state = <<>>

\* the nullable source fields of a record are missing or not available
BarometerUnavailable(x) == x = NULL \/ x = NA \/ ~Contains(x, "in")

\* C7: a record whose barometer is null, "NA" or without the inches unit,
\* whose visibility is null, or whose elevation is "NA", is kept with that
\* typed field null; the Normalizer does not raise.
C7_OptionalFieldNulled ==
  (Ran /\ \A i \in 1..Len(scraped) :
            /\ UsualBut(i, {"barometer", "vis_miles", "elev_ft"})
            /\ scraped[i].barometer # UsualRecord(i).barometer => BarometerUnavailable(scraped[i].barometer)
            /\ scraped[i].vis_miles # UsualRecord(i).vis_miles => scraped[i].vis_miles = NULL
            /\ scraped[i].elev_ft # UsualRecord(i).elev_ft => scraped[i].elev_ft = NA) =>
    /\ Emitted
    /\ \A i \in 1..Len(scraped) :
         LET x == scraped[i]
             r == transformed.records[i]
         IN  /\ BarometerUnavailable(x.barometer) => r.barometer = None
             /\ x.vis_miles = NULL => r.vis_miles = None
             /\ x.elev_ft = NA => r.elev_ft = None

Degree == "degF"

\* a positive integer stands right before a degree symbol
HasDegrees(s) ==
  /\ s # NULL
  /\ \E p \in RunStarts(s) : \E q \in p..(Len(s) - 1) :
       /\ \A j \in p..q : s[j] \in Digits
       /\ s[q + 1] = Degree
       /\ NumberAt(s, p, q) > 0

\* C9: in every emitted record whose temperature text holds a positive
\* integer followed by a degree symbol, temp_f is the first integer of the
\* text and temp_c is the integer nearest to (temp_f - 32) * 5 / 9.
C9_TemperatureConversion ==
  Emitted =>
    \A i \in 1..Len(scraped) :
      LET t == scraped[i].temperature
          r == transformed.records[i]
      IN  HasDegrees(t) =>
            /\ r.temp_f # None /\ r.temp_c # None
            /\ IsFirstInteger(t, r.temp_f[1])
            /\ 2 * (9 * r.temp_c[1] - 5 * (r.temp_f[1] - 32)) <= 9
            /\ 2 * (5 * (r.temp_f[1] - 32) - 9 * r.temp_c[1]) <= 9

\* one batch holds 72 degrees, 22 Celsius, beside a reading below freezing
C9_Witness ==
  /\ Emitted
  /\ \E i, j \in 1..Len(scraped) :
       /\ scraped[i].temperature = <<"7", "2", Degree>>
       /\ transformed.records[i].temp_f = Some(72)
       /\ transformed.records[i].temp_c = Some(22)
       /\ HasDegrees(scraped[j].temperature)
       /\ transformed.records[j].temp_f[1] < 32
       /\ transformed.records[j].temp_c[1] < 0

====
